---------------------------- MODULE Spec2Model ----------------------------
(***************************************************************************)
(* TimesheetManager: the Home page state (src/src/app/page.tsx), the date  *)
(* helpers (lib/dates, two revisions: src/unnamed/part_000 and part_001),  *)
(* the grid editor (src/unnamed/part_003), the Xero CSV exporter           *)
(* (src/src/lib/xero.ts), the upload component                             *)
(* (src/src/components/FileUpload.tsx) and the extract route               *)
(* (src/src/app/api/extract/route.ts).                                     *)
(*                                                                         *)
(* Representation.                                                         *)
(*  - A JavaScript string that the code parses (times, numeric fields) is  *)
(*    a sequence of one-character strings, so parseFloat, Number, split,   *)
(*    String and toFixed are computed character by character.              *)
(*  - A JavaScript number is a record [nan, v]: v counts 1/Scale units, so *)
(*    minutes/60 and two-decimal fractions are exact integers.  Binary     *)
(*    floating point error is not modelled.                                *)
(*  - An ISO date string "YYYY-MM-DD" is the tuple <<y, m, d>>.            *)
(*  - A Date object is its time value in hours since 2024-01-01T00:00Z     *)
(*    (a Monday); local time is UTC + tz hours (fixed offset, no DST).     *)
(*  - A CSV line is the record of its five comma-separated fields.         *)
(***************************************************************************)
EXTENDS Integers, Sequences, FiniteSets, TLC

VARIABLES
    email,          \* Home state: useState("")
    employeeName,   \* Home state: useState("")
    weekStart,      \* Home state: period start shown in the heading
    days,           \* Home state: the WorkPeriod, a sequence of DayEntry
    confidences,    \* Home state: date -> field confidences
    warnings,       \* Home state: AI warnings shown
    showUpload,     \* Home state: upload panel open
    tz,             \* environment: local offset from UTC, in hours
    op,             \* name of the last operation performed
    arg,            \* input of the last operation (of handleExtracted: the
                    \* day items it applied)
    ret,            \* result of the last operation (of handleExtracted: the
                    \* branch it took)
    inflight,       \* FileUpload: the processFile call awaiting its answer,
                    \* with the values its onExtracted callback closed over
    steps,          \* number of operations performed so far
    limit,          \* number of operations the run may perform
    payloadWarnings \* the warnings member of the payload handleExtracted
                    \* was last called with

vars == <<email, employeeName, weekStart, days, confidences, warnings,
          showUpload, tz, op, arg, ret, inflight, steps, limit,
          payloadWarnings>>

homeVars == <<email, employeeName, weekStart, days, confidences, warnings,
              showUpload>>

----------------------------------------------------------------------------
(* Bounds of the model.                                                    *)

\* longest WorkPeriod handed to the exporter in SpecXero
MaxDays == 2

\* most day items in an extraction payload
MaxPayloadDays == 2

\* most operations in one run of the page
MaxSteps == 4

\* most operations in one run of uploads and week changes
MaxUploadSteps == 6

----------------------------------------------------------------------------
(* JavaScript numbers and strings.                                         *)

\* units per 1 of a modelled number: 1/60 (minutes) and 1/100 are exact
Scale == 60 * 100

NaN == [nan |-> TRUE, v |-> 0]

Num(x) == [nan |-> FALSE, v |-> x]

\* JS truthiness of a number: NaN and 0 are falsy
Truthy(n) == ~n.nan /\ n.v # 0

\* x || 0
OrZero(n) == IF Truthy(n) THEN n ELSE Num(0)

NumSub(a, b) == IF a.nan \/ b.nan THEN NaN ELSE Num(a.v - b.v)

NumAdd(a, b) == IF a.nan \/ b.nan THEN NaN ELSE Num(a.v + b.v)

\* x / 60
NumDiv60(a) == IF a.nan THEN NaN ELSE Num(a.v \div 60)

\* x > 0 (false for NaN)
GtZero(n) == ~n.nan /\ n.v > 0

\* Math.max(0, x) (NaN stays NaN)
Max0(n) == IF n.nan THEN NaN ELSE IF n.v > 0 THEN n ELSE Num(0)

DigitChars == <<"0", "1", "2", "3", "4", "5", "6", "7", "8", "9">>

IsDigit(c) == \E i \in 1..10 : DigitChars[i] = c

DigitVal(c) == (CHOOSE i \in 1..10 : DigitChars[i] = c) - 1

RECURSIVE DigitPrefix(_)
\* the longest prefix of s made of decimal digits
DigitPrefix(s) ==
    IF s # <<>> /\ IsDigit(Head(s))
    THEN <<Head(s)>> \o DigitPrefix(Tail(s))
    ELSE <<>>

RECURSIVE DecVal(_)
\* the value of a sequence of digits
DecVal(ds) ==
    IF ds = <<>> THEN 0
    ELSE DecVal(SubSeq(ds, 1, Len(ds) - 1)) * 10 + DigitVal(ds[Len(ds)])

\* the value, in 1/Scale units, of the fraction digits ds (two are kept)
FracVal(ds) ==
    (IF Len(ds) >= 1 THEN DigitVal(ds[1]) * (Scale \div 10) ELSE 0)
    + (IF Len(ds) >= 2 THEN DigitVal(ds[2]) * (Scale \div 100) ELSE 0)

\* s without its leading sign character
Unsigned(s) == IF s # <<>> /\ Head(s) \in {"-", "+"} THEN Tail(s) ELSE s

\* the fraction digits that follow the integer digits ip of body
FracDigits(body, ip) ==
    LET rest == SubSeq(body, Len(ip) + 1, Len(body))
    IN  IF rest # <<>> /\ Head(rest) = "." THEN DigitPrefix(Tail(rest)) ELSE <<>>

\* how many characters of s parseFloat consumes (0: none, the result is NaN)
FloatPrefixLen(s) ==
    LET body == Unsigned(s)
        ip == DigitPrefix(body)
        fp == FracDigits(body, ip)
        dot == IF Len(body) > Len(ip) /\ body[Len(ip) + 1] = "." THEN 1 ELSE 0
    IN  IF ip = <<>> /\ fp = <<>> THEN 0
        ELSE (Len(s) - Len(body)) + Len(ip)
             + (IF fp # <<>> \/ ip # <<>> THEN dot ELSE 0) + Len(fp)

\* parseFloat(s): sign, digits, optional fraction; the rest is ignored
ParseFloat(s) ==
    LET body == Unsigned(s)
        ip == DigitPrefix(body)
        fp == FracDigits(body, ip)
        mag == DecVal(ip) * Scale + FracVal(fp)
    IN  IF ip = <<>> /\ fp = <<>> THEN NaN
        ELSE IF s # <<>> /\ Head(s) = "-" THEN Num(-mag) ELSE Num(mag)

\* Number(s): "" is 0, a whole-string numeric literal is its value, else NaN
Number(s) ==
    IF s = <<>> THEN Num(0)
    ELSE IF FloatPrefixLen(s) = Len(s) THEN ParseFloat(s)
    ELSE NaN

RECURSIVE SplitOn(_, _)
\* s.split(sep) for a one-character separator
SplitOn(s, sep) ==
    IF \A i \in 1..Len(s) : s[i] # sep THEN <<s>>
    ELSE LET k == CHOOSE i \in 1..Len(s) :
                     s[i] = sep /\ \A j \in 1..(i - 1) : s[j] # sep
         IN  <<SubSeq(s, 1, k - 1)>> \o SplitOn(SubSeq(s, k + 1, Len(s)), sep)

\* const [h, m] = s.split(":").map(Number): a missing element is undefined,
\* which arithmetic turns into NaN
TimeParts(s) ==
    LET parts == SplitOn(s, ":")
    IN  [h |-> Number(parts[1]),
         m |-> IF Len(parts) >= 2 THEN Number(parts[2]) ELSE NaN]

RECURSIVE NatToStr(_)
\* the decimal digits of a natural number
NatToStr(n) ==
    IF n < 10 THEN <<DigitChars[n + 1]>>
    ELSE NatToStr(n \div 10) \o <<DigitChars[(n % 10) + 1]>>

Abs(x) == IF x < 0 THEN -x ELSE x

\* String(x) of a number with at most two decimals: shortest decimal form
NumToString(x) ==
    LET h == Abs(x) \div (Scale \div 100)
        ip == NatToStr(h \div 100)
        f == h % 100
        body == IF f = 0 THEN ip
                ELSE IF f % 10 = 0 THEN ip \o <<".", DigitChars[(f \div 10) + 1]>>
                ELSE ip \o <<".", DigitChars[(f \div 10) + 1], DigitChars[(f % 10) + 1]>>
    IN  IF x < 0 THEN <<"-">> \o body ELSE body

\* x.toFixed(2) of a number x >= 0: rounded to the nearest 1/100
ToFixed2(x) ==
    LET unit == Scale \div 100
        h == (x + unit \div 2) \div unit
    IN  NatToStr(h \div 100)
        \o <<".", DigitChars[((h % 100) \div 10) + 1], DigitChars[(h % 10) + 1]>>

\* The string literals used below, as character sequences.
Empty == <<>>

T0900 == <<"0", "9", ":", "0", "0">>

T1720 == <<"1", "7", ":", "2", "0">>

T1730 == <<"1", "7", ":", "3", "0">>

S0 == <<"0">>

S7p5 == <<"7", ".", "5">>

SNeg2 == <<"-", "2">>

S30 == <<"3", "0">>

SBad == <<"x">>

S15 == <<"1", "5">>

----------------------------------------------------------------------------
(* The calendar and the Date object.                                       *)

IsLeap(y) == y % 4 = 0 /\ (y % 100 # 0 \/ y % 400 = 0)

DaysInMonth(y, m) ==
    IF m = 2 THEN (IF IsLeap(y) THEN 29 ELSE 28)
    ELSE IF m \in {4, 6, 9, 11} THEN 30 ELSE 31

YearLen(y) == IF IsLeap(y) THEN 366 ELSE 365

RECURSIVE YearStart(_)
\* days from 2024-01-01 to the first day of year y
YearStart(y) ==
    IF y = 2024 THEN 0
    ELSE IF y > 2024 THEN YearStart(y - 1) + YearLen(y - 1)
    ELSE YearStart(y + 1) - YearLen(y)

RECURSIVE MonthStart(_, _)
\* days from the first day of year y to the first day of its month m
MonthStart(y, m) ==
    IF m = 1 THEN 0 ELSE MonthStart(y, m - 1) + DaysInMonth(y, m - 1)

\* the day number of a calendar date (2024-01-01 is day 0)
DaysFromCivil(iso) == YearStart(iso[1]) + MonthStart(iso[1], iso[2]) + iso[3] - 1

RECURSIVE CivilFrom(_, _, _)
\* the calendar date n days after the first day of month m of year y
CivilFrom(n, y, m) ==
    IF n < 0
    THEN LET py == IF m = 1 THEN y - 1 ELSE y
             pm == IF m = 1 THEN 12 ELSE m - 1
         IN  CivilFrom(n + DaysInMonth(py, pm), py, pm)
    ELSE IF n >= DaysInMonth(y, m)
    THEN CivilFrom(n - DaysInMonth(y, m),
                   IF m = 12 THEN y + 1 ELSE y, IF m = 12 THEN 1 ELSE m + 1)
    ELSE <<y, m, n + 1>>

\* the calendar date of a day number
CivilFromDays(n) == CivilFrom(n, 2024, 1)

\* the weekday (0 = Sunday) of a day number; day 0 is a Monday
WeekdayOfDay(n) == (n + 1) % 7

\* the local calendar day, and the local hour of the day, of time value t
LocalDay(t, z) == (t + z) \div 24

LocalHour(t, z) == (t + z) % 24

\* new Date(iso + "T00:00:00"): local midnight of the calendar date
DateParseLocal(iso, z) == DaysFromCivil(iso) * 24 - z

\* Date.prototype.getDay, getDate (local time)
GetDay(t, z) == WeekdayOfDay(LocalDay(t, z))

GetDate(t, z) == CivilFromDays(LocalDay(t, z))[3]

\* Date.prototype.setDate(n): day n of the local month, out-of-range n rolls
\* over into the neighbouring months; the local time of day is kept
SetDate(t, z, n) ==
    LET c == CivilFromDays(LocalDay(t, z))
    IN  (DaysFromCivil(<<c[1], c[2], 1>>) + n - 1) * 24 + LocalHour(t, z) - z

\* Date.prototype.setHours(0, 0, 0, 0): local midnight of the same local day
SetHoursZero(t, z) == LocalDay(t, z) * 24 - z

\* date.toISOString().split("T")[0]: the calendar date in UTC
ToISODate(t) == CivilFromDays(t \div 24)

----------------------------------------------------------------------------
(* lib/dates: src/unnamed/part_000 (any start weekday) and                 *)
(* src/unnamed/part_001 (Monday to Friday).                                *)

ALL_DAY_NAMES == <<"SUN", "MON", "TUE", "WED", "THU", "FRI", "SAT">>

DAY_NAMES == <<"MON", "TUE", "WED", "THU", "FRI">>

\* getMonday with the Sunday case dropped: day === 0 is treated like any day
getMondayNoSundayCase(date, z) ==
    LET day == GetDay(date, z)
        diff == GetDate(date, z) - day + 1
    IN  SetHoursZero(SetDate(date, z, diff), z)

getMonday(date, z) ==
    LET day == GetDay(date, z)
        diff == GetDate(date, z) - day + (IF day = 0 THEN -6 ELSE 1)
    IN  SetHoursZero(SetDate(date, z, diff), z)

formatDate(date) == ToISODate(date)

getDayName(date, z) == ALL_DAY_NAMES[GetDay(date, z) + 1]

\* a day record with every optional field empty
BlankDay(date, dayOfWeek) ==
    [date |-> date, dayOfWeek |-> dayOfWeek, startTime |-> <<>>,
     endTime |-> <<>>, totalHours |-> <<>>, breakMinutes |-> <<>>,
     kilometers |-> <<>>, notes |-> <<>>]

\* part_000: five days from the given start, weekday names from the dates
generateWeekDays(weekStartDate, z) ==
    LET start == DateParseLocal(weekStartDate, z)
    IN  [i \in 1..5 |->
            LET d == SetDate(start, z, GetDate(start, z) + (i - 1))
            IN  BlankDay(formatDate(d), getDayName(d, z))]

\* part_001: five days from the given Monday, weekday names by position
generateWeekDaysMonFri(weekStartDate, z) ==
    LET monday == DateParseLocal(weekStartDate, z)
    IN  [i \in 1..5 |->
            LET d == SetDate(monday, z, GetDate(monday, z) + (i - 1))
            IN  BlankDay(formatDate(d), DAY_NAMES[i])]

\* getCurrentWeekStart(), with new Date() = now
getCurrentWeekStart(now, z) == formatDate(getMonday(now, z))

----------------------------------------------------------------------------
(* lib/xero: generateXeroCSV, and the Total Hours reducer of Home.         *)

HeaderRow ==
    [name |-> "Employee Name", date |-> "Date", rate |-> "Earnings Rate",
     units |-> "Units", notes |-> "Notes"]

\* the hours of one day as the loop body of generateXeroCSV derives them
XeroHours(day) ==
    LET hours == OrZero(ParseFloat(day.totalHours))
    IN  IF ~Truthy(hours) /\ day.startTime # <<>> /\ day.endTime # <<>>
        THEN LET s == TimeParts(day.startTime)
                 e == TimeParts(day.endTime)
                 span == NumAdd(NumSub(e.h, s.h), NumDiv60(NumSub(e.m, s.m)))
                 breakMins == OrZero(ParseFloat(day.breakMinutes))
             IN  NumSub(span, NumDiv60(breakMins))
        ELSE hours

\* the kilometers of one day as generateXeroCSV reads them
XeroKm(day) == OrZero(ParseFloat(day.kilometers))

HoursRow(employee, day) ==
    [name |-> employee, date |-> day.date, rate |-> "Ordinary Hours",
     units |-> ToFixed2(XeroHours(day).v), notes |-> day.notes]

KmRow(employee, day) ==
    [name |-> employee, date |-> day.date, rate |-> "Kilometers",
     units |-> ToFixed2(XeroKm(day).v),
     notes |-> NumToString(XeroKm(day).v) \o <<" ", "k", "m">>]

\* the rows of one day with the two pushes swapped
DayRowsKmFirst(employee, day) ==
    (IF GtZero(XeroKm(day)) THEN <<KmRow(employee, day)>> ELSE <<>>)
    \o (IF GtZero(XeroHours(day)) THEN <<HoursRow(employee, day)>> ELSE <<>>)

\* the rows of one day with the hours test written hours >= 0
DayRowsZeroHours(employee, day) ==
    (IF ~XeroHours(day).nan /\ XeroHours(day).v >= 0
     THEN <<HoursRow(employee, day)>> ELSE <<>>)
    \o (IF GtZero(XeroKm(day)) THEN <<KmRow(employee, day)>> ELSE <<>>)

\* the rows one iteration of the loop pushes
DayRows(employee, day) ==
    (IF GtZero(XeroHours(day)) THEN <<HoursRow(employee, day)>> ELSE <<>>)
    \o (IF GtZero(XeroKm(day)) THEN <<KmRow(employee, day)>> ELSE <<>>)

RECURSIVE XeroRows(_, _)
XeroRows(employee, ds) ==
    IF ds = <<>> THEN <<>>
    ELSE DayRows(employee, Head(ds)) \o XeroRows(employee, Tail(ds))

\* the lines of the CSV (rows.join("\n") keeps their order)
generateXeroCSV(employee, ds) == <<HeaderRow>> \o XeroRows(employee, ds)

\* the per-day hours of the Total Hours reducer in Home
SummaryHours(d) ==
    LET h == OrZero(ParseFloat(d.totalHours))
    IN  IF ~Truthy(h) /\ d.startTime # <<>> /\ d.endTime # <<>>
        THEN LET s == TimeParts(d.startTime)
                 e == TimeParts(d.endTime)
                 span == NumAdd(NumSub(e.h, s.h), NumDiv60(NumSub(e.m, s.m)))
             IN  NumSub(span, NumDiv60(OrZero(ParseFloat(d.breakMinutes))))
        ELSE h

RECURSIVE TotalHoursNoClamp(_)
\* the reducer without Math.max(0, h)
TotalHoursNoClamp(ds) ==
    IF ds = <<>> THEN Num(0)
    ELSE NumAdd(TotalHoursNoClamp(SubSeq(ds, 1, Len(ds) - 1)),
                SummaryHours(ds[Len(ds)]))

RECURSIVE TotalHours(_)
\* days.reduce((sum, d) => sum + Math.max(0, h), 0), before .toFixed(1)
TotalHours(ds) ==
    IF ds = <<>> THEN Num(0)
    ELSE NumAdd(TotalHours(SubSeq(ds, 1, Len(ds) - 1)),
                Max0(SummaryHours(ds[Len(ds)])))

----------------------------------------------------------------------------
(* Extraction payloads (AIExtractionResult, src/unnamed/part_001 84-101).  *)
(* A nullable value is [null, val]; a missing object is null.              *)

Null(default) == [null |-> TRUE, val |-> default]

Some(x) == [null |-> FALSE, val |-> x]

Mon0304 == <<2024, 3, 4>>

Tue0305 == <<2024, 3, 5>>

\* work blocks of payload days
WorkNone ==
    [startTime |-> Null(<<>>), endTime |-> Null(<<>>), totalHours |-> Null(0),
     breakMinutes |-> Null(0), kilometers |-> Null(0)]

WorkTotalOnly == [WorkNone EXCEPT !.totalHours = Some(8 * Scale)]

WorkTimesNoBreak ==
    [WorkNone EXCEPT !.startTime = Some(T0900), !.endTime = Some(T1730)]

WorkTimesBreak ==
    [WorkTimesNoBreak EXCEPT !.breakMinutes = Some(30 * Scale),
                             !.kilometers = Some(15 * Scale)]

AiDay(date, dayOfWeek, work, notes, score) ==
    [date |-> date, dayOfWeek |-> dayOfWeek, work |-> work, notes |-> notes,
     confidence |-> [overall |-> score, fields |-> [totalHours |-> Some(score)]]]

\* the day items payloads are built from: a total without a break, times
\* with a break and kilometers, and a day without work whose weekday label
\* contradicts its date
AiDayPool ==
    { AiDay(Mon0304, "MON", WorkTotalOnly, Null(<<>>), 90),
      AiDay(Tue0305, "TUE", WorkTimesBreak, Some(<<"o", "k">>), 80),
      AiDay(Mon0304, "TUE", WorkNone, Null(<<>>), 40) }

AiDayLists == UNION { [1..n -> AiDayPool] : n \in 0..MaxPayloadDays }

\* the days member: missing (undefined), null, or a list
AiDaysValues ==
    { [kind |-> "missing", list |-> <<>>], [kind |-> "null", list |-> <<>>] }
    \cup { [kind |-> "list", list |-> l] : l \in AiDayLists }

\* the employee member: missing, or a name with or without an email
AiEmployees ==
    { Null([fullName |-> "", email |-> Null("")]),
      Some([fullName |-> "Zed", email |-> Null("")]),
      Some([fullName |-> "Zed", email |-> Some("zed@x.io")]) }

AiWarnings == { <<>>, <<"page 2 unreadable">> }

AiPeriods == { Null([weekStartDate |-> <<>>]), Some([weekStartDate |-> Tue0305]) }

NullPayload ==
    [null |-> TRUE, employee |-> Null([fullName |-> "", email |-> Null("")]),
     period |-> Null([weekStartDate |-> <<>>]),
     days |-> [kind |-> "missing", list |-> <<>>], warnings |-> <<>>]

\* a payload without employee, period and warnings, and one with them
BarePayload ==
    [NullPayload EXCEPT !.null = FALSE]

Payload(e, p, d, w) ==
    [null |-> FALSE, employee |-> e, period |-> p, days |-> d, warnings |-> w]

\* every days member in a bare payload; every employee, period and warnings
\* with the days missing and with one day item (times without a break); and
\* no payload at all
Payloads ==
    { [BarePayload EXCEPT !.days = d] : d \in AiDaysValues }
    \cup { Payload(e, p, d, w) :
              e \in AiEmployees, p \in AiPeriods, w \in AiWarnings,
              d \in { [kind |-> "missing", list |-> <<>>],
                      [kind |-> "list",
                       list |-> <<AiDay(Tue0305, "TUE", WorkTimesNoBreak,
                                        Null(<<>>), 60)>>] } }
    \cup { NullPayload }

\* result.days && result.days.length > 0
HasDays(data) == data.days.kind = "list" /\ Len(data.days.list) > 0

\* result.employee?.fullName, result.employee?.email ("" when falsy)
PayloadFullName(data) ==
    IF data.employee.null THEN "" ELSE data.employee.val.fullName

PayloadEmail(data) ==
    IF data.employee.null \/ data.employee.val.email.null THEN ""
    ELSE data.employee.val.email.val

\* result.period?.weekStartDate (<<>> when falsy)
PayloadWeekStart(data) ==
    IF data.period.null THEN <<>> ELSE data.period.val.weekStartDate

----------------------------------------------------------------------------
(* Home (src/src/app/page.tsx) and the grid editor (src/unnamed/part_003). *)

\* one more operation, while the run is within its bound
Tick == steps < limit /\ steps' = steps + 1 /\ limit' = limit

\* x || "" of a nullable string
OrEmpty(x) == IF x.null THEN <<>> ELSE x.val

\* x != null ? String(x) : ""
StringOrEmpty(x) == IF x.null THEN <<>> ELSE NumToString(x.val)

\* x != null ? String(x) : "0"
StringOrZero(x) == IF x.null THEN <<"0">> ELSE NumToString(x.val)

\* the mapper with a null number written as "0"
NewDayZeroForNull(aiDay) ==
    [date |-> aiDay.date,
     dayOfWeek |-> aiDay.dayOfWeek,
     startTime |-> OrEmpty(aiDay.work.startTime),
     endTime |-> OrEmpty(aiDay.work.endTime),
     totalHours |-> StringOrZero(aiDay.work.totalHours),
     breakMinutes |-> StringOrZero(aiDay.work.breakMinutes),
     kilometers |-> StringOrZero(aiDay.work.kilometers),
     notes |-> OrEmpty(aiDay.notes)]

\* result.days.map((aiDay) => ({...})): one DayEntry per payload day
NewDay(aiDay) ==
    [date |-> aiDay.date,
     dayOfWeek |-> aiDay.dayOfWeek,
     startTime |-> OrEmpty(aiDay.work.startTime),
     endTime |-> OrEmpty(aiDay.work.endTime),
     totalHours |-> StringOrEmpty(aiDay.work.totalHours),
     breakMinutes |-> StringOrEmpty(aiDay.work.breakMinutes),
     kilometers |-> StringOrEmpty(aiDay.work.kilometers),
     notes |-> OrEmpty(aiDay.notes)]

NewDays(list) == [i \in 1..Len(list) |-> NewDay(list[i])]

\* confMap[aiDay.date] = aiDay.confidence.fields, a later day overwriting
\* an earlier one with the same date
ConfMap(list) ==
    [d \in { list[i].date : i \in 1..Len(list) } |->
        LET last == CHOOSE i \in 1..Len(list) :
                        list[i].date = d
                        /\ \A j \in (i + 1)..Len(list) : list[j].date # d
        IN  list[last].confidence.fields]

\* if (offered && !captured) set(offered): captured is the value the
\* callback closed over, current the value of the state
NextIdentity(current, captured, offered) ==
    IF offered # "" /\ captured = "" THEN offered ELSE current

\* the days kept or replaced, with the length test written >= 0
NextDaysAlways(data) ==
    IF data.days.kind = "list" THEN NewDays(data.days.list) ELSE days

NextDays(data) == IF HasDays(data) THEN NewDays(data.days.list) ELSE days

NextConfidences(data) ==
    IF HasDays(data) THEN ConfMap(data.days.list) ELSE confidences

\* handleExtracted(data) as the callback that closed over cEmployeeName and
\* cEmail.  A null payload throws at result.employee before any setter.
handleExtracted(data, cEmployeeName, cEmail) ==
    /\ Tick
    /\ op' = "handleExtracted"
    /\ arg' = IF HasDays(data) THEN data.days.list ELSE <<>>
    /\ IF data.null
       THEN /\ ret' = "TypeError"
            /\ UNCHANGED homeVars
       ELSE /\ ret' = IF HasDays(data) THEN "days applied" ELSE "no days"
            /\ employeeName' =
                   NextIdentity(employeeName, cEmployeeName, PayloadFullName(data))
            /\ email' = NextIdentity(email, cEmail, PayloadEmail(data))
            /\ days' = NextDays(data)
            /\ confidences' = NextConfidences(data)
            /\ warnings' = IF Len(data.warnings) > 0 THEN data.warnings ELSE warnings
            /\ weekStart' = IF PayloadWeekStart(data) # <<>>
                            THEN PayloadWeekStart(data) ELSE weekStart
            /\ showUpload' = FALSE
    /\ payloadWarnings' = IF data.null THEN payloadWarnings ELSE data.warnings
    /\ UNCHANGED tz

NoUpload == [active |-> FALSE, employeeName |-> "", email |-> ""]

\* FileUpload.processFile up to its await: the panel is shown, a file is
\* chosen, and the call keeps the onExtracted of the current render, that
\* is handleExtracted closed over the current employeeName and email
StartUpload ==
    /\ Tick
    /\ showUpload
    /\ ~inflight.active
    /\ inflight' = [active |-> TRUE, employeeName |-> employeeName,
                    email |-> email]
    /\ op' = "processFile"
    /\ arg' = <<>>
    /\ ret' = <<>>
    /\ UNCHANGED <<homeVars, tz, payloadWarnings>>

\* processFile after its await, res.ok: onExtracted(result)
Extracted ==
    /\ inflight.active
    /\ inflight' = NoUpload
    /\ \E data \in Payloads :
           handleExtracted(data, inflight.employeeName, inflight.email)

\* processFile after its await, the request failed: setError, no callback
UploadFailed ==
    /\ Tick
    /\ inflight.active
    /\ inflight' = NoUpload
    /\ op' = "uploadFailed"
    /\ arg' = <<>>
    /\ ret' = <<>>
    /\ UNCHANGED <<homeVars, tz, payloadWarnings>>

handleWeekChange(date) ==
    /\ Tick
    /\ weekStart' = date
    /\ days' = generateWeekDays(date, tz)
    /\ confidences' = <<>>
    /\ warnings' = <<>>
    /\ op' = "handleWeekChange"
    /\ arg' = date
    /\ ret' = <<>>
    /\ UNCHANGED <<email, employeeName, showUpload, tz, inflight,
                   payloadWarnings>>

\* dates the week picker is given
PickDates == { <<2024, 2, 28>>, Mon0304 }

WeekChange == \E date \in PickDates : handleWeekChange(date)

\* what the identity inputs are given
TypedNames == { "", "Ann" }

TypedEmails == { "", "ann@x.io" }

SetEmployeeName ==
    /\ Tick
    /\ \E v \in TypedNames :
        /\ employeeName' = v
        /\ op' = "setEmployeeName"
        /\ arg' = <<>>
        /\ ret' = <<>>
        /\ UNCHANGED <<email, weekStart, days, confidences, warnings,
                       showUpload, tz, inflight,
                   payloadWarnings>>

SetEmail ==
    /\ Tick
    /\ \E v \in TypedEmails :
        /\ email' = v
        /\ op' = "setEmail"
        /\ arg' = <<>>
        /\ ret' = <<>>
        /\ UNCHANGED <<employeeName, weekStart, days, confidences, warnings,
                       showUpload, tz, inflight,
                   payloadWarnings>>

ToggleUpload ==
    /\ Tick
    /\ showUpload' = ~showUpload
    /\ op' = "toggleUpload"
    /\ arg' = <<>>
    /\ ret' = <<>>
    /\ UNCHANGED <<email, employeeName, weekStart, days, confidences,
                   warnings, tz, inflight,
                   payloadWarnings>>

\* the fields the grid edits, and what is typed into them
EditFields == { "startTime", "endTime", "totalHours", "breakMinutes",
                "kilometers", "notes" }

EditValues(field) ==
    CASE field = "startTime" -> { <<>>, T0900 }
      [] field = "endTime" -> { <<>>, T1730 }
      [] field = "totalHours" -> { <<>>, S7p5 }
      [] field = "breakMinutes" -> { <<>>, S30 }
      [] field = "kilometers" -> { <<>>, S15 }
      [] field = "notes" -> { <<>>, <<"o", "k">> }

\* the rows edited: the first and the last
EditRows == { i \in 1..Len(days) : i = 1 \/ i = Len(days) }

\* TimesheetGrid.updateDay, with onChange = setDays
updateDay(index, field, value) ==
    /\ Tick
    /\ days' = [days EXCEPT ![index] = [@ EXCEPT ![field] = value]]
    /\ op' = "updateDay"
    /\ arg' = <<index, field, value>>
    /\ ret' = <<>>
    /\ UNCHANGED <<email, employeeName, weekStart, confidences, warnings,
                   showUpload, tz, inflight,
                   payloadWarnings>>

UpdateDay ==
    \E index \in EditRows, field \in EditFields :
        \E value \in EditValues(field) : updateDay(index, field, value)

\* const hasAnyData = days.some(...)
hasAnyData ==
    \E i \in 1..Len(days) :
        \/ days[i].startTime # <<>>
        \/ days[i].endTime # <<>>
        \/ days[i].totalHours # <<>>
        \/ days[i].kilometers # <<>>

\* const name = employeeName || email || "Employee"
DisplayName ==
    IF employeeName # "" THEN employeeName
    ELSE IF email # "" THEN email ELSE "Employee"

\* the Download button (disabled without data or name) and its handler
handleDownloadCSV ==
    /\ Tick
    /\ hasAnyData
    /\ employeeName # ""
    /\ op' = "handleDownloadCSV"
    /\ arg' = days
    /\ ret' = generateXeroCSV(DisplayName, days)
    /\ UNCHANGED <<homeVars, tz, inflight,
                   payloadWarnings>>

\* the environment: offsets from UTC, and the moments the page is opened
\* (Sunday 2024-03-03 20:00Z and Wednesday 2024-03-06 12:00Z)
TZOffsets == { -8, 0, 10 }

NowTimes == { DaysFromCivil(<<2024, 3, 3>>) * 24 + 20,
              DaysFromCivil(<<2024, 3, 6>>) * 24 + 12 }

\* Home after construction, in some environment at some moment
Constructed ==
    /\ tz \in TZOffsets
    /\ \E now \in NowTimes :
           /\ weekStart = getCurrentWeekStart(now, tz)
           /\ days = generateWeekDays(getCurrentWeekStart(now, tz), tz)
    /\ email = ""
    /\ employeeName = ""
    /\ confidences = <<>>
    /\ warnings = <<>>
    /\ showUpload = FALSE
    /\ op = "init"
    /\ arg = <<>>
    /\ ret = <<>>
    /\ inflight = NoUpload
    /\ payloadWarnings = <<>>
    /\ steps = 0

Init == Constructed /\ limit = MaxSteps

Next ==
    \/ SetEmployeeName
    \/ SetEmail
    \/ WeekChange
    \/ UpdateDay
    \/ ToggleUpload
    \/ StartUpload
    \/ Extracted
    \/ UploadFailed
    \/ handleDownloadCSV

Spec == Init /\ [][Next]_vars

----------------------------------------------------------------------------
(* The exporter and the summary as pure functions of a WorkPeriod: the     *)
(* period is drawn from bounded sets and the two functions are applied.    *)

\* start and end times: none, a day of 8 h 20 min, and an end before the
\* start
XeroTimes == { <<Empty, Empty>>, <<T0900, T1720>>, <<T1720, T0900>> }

XeroTotals == { Empty, S7p5, SNeg2 }

XeroBreaks == { Empty, S30 }

XeroKms == { Empty, S15 }

\* the i-th day of a drawn period: consecutive dates from Monday 2024-03-04
XeroDate(i) == CivilFromDays(DaysFromCivil(Mon0304) + i - 1)

XeroInput(start, end, total, break, km) ==
    [startTime |-> start, endTime |-> end, totalHours |-> total,
     breakMinutes |-> break, kilometers |-> km]

\* every combination of the above, and four more days: a break that is no
\* number, a total of "0", a start without an end, and a start time
\* without minutes
XeroDayInputs ==
    { XeroInput(t[1], t[2], th, b, km) :
        t \in XeroTimes, th \in XeroTotals, b \in XeroBreaks, km \in XeroKms }
    \cup { XeroInput(T0900, T1730, Empty, SBad, Empty),
           XeroInput(T0900, T1730, S0, S30, Empty),
           XeroInput(T0900, Empty, Empty, S30, Empty),
           XeroInput(<<"9">>, T1730, Empty, Empty, Empty) }

XeroDay(i, in) ==
    [date |-> XeroDate(i),
     dayOfWeek |-> ALL_DAY_NAMES[WeekdayOfDay(DaysFromCivil(XeroDate(i))) + 1],
     startTime |-> in.startTime, endTime |-> in.endTime,
     totalHours |-> in.totalHours, breakMinutes |-> in.breakMinutes,
     kilometers |-> in.kilometers, notes |-> <<>>]

InitXero ==
    /\ \E n \in 0..MaxDays :
           \E f \in [1..n -> XeroDayInputs] :
               days = [i \in 1..n |-> XeroDay(i, f[i])]
    /\ employeeName = "Jane Doe"
    /\ email = ""
    /\ weekStart = Mon0304
    /\ confidences = <<>>
    /\ warnings = <<>>
    /\ showUpload = FALSE
    /\ tz = 0
    /\ op = "init"
    /\ arg = <<>>
    /\ ret = <<>>
    /\ inflight = NoUpload
    /\ payloadWarnings = <<>>
    /\ steps = 0
    /\ limit = 0

\* generateXeroCSV(name, days) is called
XeroExport ==
    /\ op' = "generateXeroCSV"
    /\ arg' = days
    /\ ret' = generateXeroCSV(DisplayName, days)
    /\ UNCHANGED <<homeVars, tz, inflight, steps, limit,
                     payloadWarnings>>

\* Home renders the Total Hours figure
RenderSummary ==
    /\ op' = "TotalHours"
    /\ arg' = days
    /\ ret' = TotalHours(days)
    /\ UNCHANGED <<homeVars, tz, inflight, steps, limit,
                     payloadWarnings>>

NextXero == XeroExport \/ RenderSummary

SpecXero == InitXero /\ [][NextXero]_vars

----------------------------------------------------------------------------
(* The page under uploads and week changes alone, for longer runs.         *)

InitUploads == Constructed /\ limit = MaxUploadSteps

NextUploads ==
    \/ ToggleUpload
    \/ StartUpload
    \/ Extracted
    \/ UploadFailed
    \/ WeekChange

SpecUploads == InitUploads /\ [][NextUploads]_vars

----------------------------------------------------------------------------
(* The date helpers on their own: every call of getMonday and of           *)
(* generateWeekDays (both revisions) on a fortnight of dates around the    *)
(* leap day of 2024, in each environment time zone.                        *)

NumDates == 14

FirstDate == DaysFromCivil(<<2024, 2, 24>>)

DayHours == { 0, 9, 23 }

\* instants (UTC hours) handed to getMonday
DateTimes ==
    { (FirstDate + k) * 24 + h : k \in 0..(NumDates - 1), h \in DayHours }

\* "YYYY-MM-DD" strings handed to generateWeekDays
StartDates == { CivilFromDays(FirstDate + k) : k \in 0..(NumDates - 1) }

InitDates ==
    /\ tz \in TZOffsets
    /\ employeeName = ""
    /\ email = ""
    /\ weekStart = Mon0304
    /\ days = <<>>
    /\ confidences = <<>>
    /\ warnings = <<>>
    /\ showUpload = FALSE
    /\ op = "init"
    /\ arg = <<>>
    /\ ret = <<>>
    /\ inflight = NoUpload
    /\ payloadWarnings = <<>>
    /\ steps = 0
    /\ limit = 0

CallGetMonday ==
    \E D \in DateTimes :
        /\ op' = "getMonday"
        /\ arg' = D
        /\ ret' = getMonday(D, tz)
        /\ UNCHANGED <<homeVars, tz, inflight, steps, limit,
                     payloadWarnings>>

CallGenerateWeekDays ==
    \E start \in StartDates :
        /\ op' = "generateWeekDays"
        /\ arg' = start
        /\ ret' = generateWeekDays(start, tz)
        /\ UNCHANGED <<homeVars, tz, inflight, steps, limit,
                     payloadWarnings>>

CallGenerateWeekDaysMonFri ==
    \E start \in StartDates :
        /\ op' = "generateWeekDaysMonFri"
        /\ arg' = start
        /\ ret' = generateWeekDaysMonFri(start, tz)
        /\ UNCHANGED <<homeVars, tz, inflight, steps, limit,
                     payloadWarnings>>

\* formatDate(new Date(S + "T00:00:00")): the string parsed the way the
\* generator parses it, then formatted
CallFormatDate ==
    \E S \in StartDates :
        /\ op' = "formatDate"
        /\ arg' = S
        /\ ret' = formatDate(DateParseLocal(S, tz))
        /\ UNCHANGED <<homeVars, tz, inflight, steps, limit,
                     payloadWarnings>>

\* getCurrentWeekStart() with new Date() = now
CallGetCurrentWeekStart ==
    \E now \in DateTimes :
        /\ op' = "getCurrentWeekStart"
        /\ arg' = now
        /\ ret' = getCurrentWeekStart(now, tz)
        /\ UNCHANGED <<homeVars, tz, inflight, steps, limit,
                     payloadWarnings>>

NextDates ==
    \/ CallGetMonday
    \/ CallGenerateWeekDays
    \/ CallGenerateWeekDaysMonFri
    \/ CallFormatDate
    \/ CallGetCurrentWeekStart

SpecDates == InitDates /\ [][NextDates]_vars

----------------------------------------------------------------------------
(* The extract route, src/src/app/api/extract/route.ts, and the request    *)
(* FileUpload sends to it.  A form field is [present, val]; the answer is  *)
(* [status, error, called], called naming the provider that was called.    *)

ALLOWED_TYPES ==
    { "image/jpeg", "image/png", "image/webp", "application/pdf",
      "text/plain", "text/csv" }

\* 20 * 1024 * 1024
MaxFileSize == 20971520

RECURSIVE TrimStart(_)
TrimStart(s) ==
    IF s # <<>> /\ Head(s) = " " THEN TrimStart(Tail(s)) ELSE s

RECURSIVE TrimEnd(_)
TrimEnd(s) ==
    IF s # <<>> /\ s[Len(s)] = " " THEN TrimEnd(SubSeq(s, 1, Len(s) - 1))
    ELSE s

\* String.prototype.trim
Trim(s) == TrimEnd(TrimStart(s))

NoField == [present |-> FALSE, val |-> <<>>]

Field(x) == [present |-> TRUE, val |-> x]

\* a || b on strings ("" is falsy, as is an unset variable)
OrElse(a, b) == IF a # "" THEN a ELSE b

\* process.env.AI_PROVIDER || (process.env.ANTHROPIC_API_KEY ? ... : ...)
ResolvedProvider(env) ==
    OrElse(env.AI_PROVIDER,
           IF env.ANTHROPIC_API_KEY # "" THEN "anthropic" ELSE "openai")

ResolvedKey(env) ==
    OrElse(env.AI_API_KEY,
        OrElse(IF ResolvedProvider(env) = "anthropic"
               THEN env.ANTHROPIC_API_KEY ELSE "",
               IF ResolvedProvider(env) = "openai"
               THEN env.OPENAI_API_KEY ELSE ""))

Answer(status, error, called) ==
    [status |-> status, error |-> error, called |-> called]

\* the checks after the four of the request: key, then provider
AfterChecks(env, outcome) ==
    IF ResolvedKey(env) = "" \/ ResolvedKey(env) = "your_key_here"
    THEN Answer(500, "AI API key not configured", "none")
    ELSE IF ResolvedProvider(env) \in { "openai", "anthropic" }
         THEN IF outcome = "json"
              THEN Answer(200, "", ResolvedProvider(env))
              ELSE Answer(500, "provider error", ResolvedProvider(env))
         ELSE Answer(500, "Unknown AI provider", "none")

\* the checks on the file: presence, size, type
FileChecks(req, env, outcome) ==
    IF ~req.file.present
    THEN Answer(400, "No file provided", "none")
    ELSE IF req.file.val.size > MaxFileSize
         THEN Answer(400, "File too large (max 20MB)", "none")
         ELSE IF req.file.val.type \notin ALLOWED_TYPES
              THEN Answer(400, "Unsupported file type", "none")
              ELSE AfterChecks(env, outcome)

\* the route with the employee name not looked at
POSTNoNameCheck(req, env, outcome) == FileChecks(req, env, outcome)

POST(req, env, outcome) ==
    IF ~req.employeeName.present \/ Trim(req.employeeName.val) = <<>>
    THEN Answer(400, "Employee name is required before uploading.", "none")
    ELSE FileChecks(req, env, outcome)

\* what is sent as employeeName: nothing, "", blanks, names
NameFields ==
    { NoField, Field(<<>>), Field(<<" ", " ">>), Field(<<"A", "n", "n">>),
      Field(<<" ", "A", "n", "n", " ">>) }

FileSizes == { 1024, MaxFileSize, MaxFileSize + 1 }

FileTypes == ALLOWED_TYPES \cup { "application/zip", "" }

FileFields ==
    { NoField }
    \cup { Field([size |-> sz, type |-> ty]) : sz \in FileSizes, ty \in FileTypes }

Envs ==
    [AI_PROVIDER : { "", "openai", "anthropic", "gemini" },
     AI_API_KEY : { "", "k1", "your_key_here" },
     ANTHROPIC_API_KEY : { "", "k2" },
     OPENAI_API_KEY : { "", "k3" }]

ProviderOutcomes == { "json", "throws" }

\* the form FileUpload.processFile posts: the file and nothing else
FileUploadForm(file) == [employeeName |-> NoField, file |-> Field(file)]

\* a request, an environment and what the provider will do, drawn at the
\* start
InitRoute ==
    /\ employeeName \in TypedNames
    /\ email = ""
    /\ weekStart = Mon0304
    /\ days = <<>>
    /\ confidences = <<>>
    /\ warnings = <<>>
    /\ showUpload = TRUE
    /\ tz = 0
    /\ op = "init"
    /\ \E name \in NameFields, file \in FileFields, env \in Envs,
          outcome \in ProviderOutcomes :
           arg = [req |-> [employeeName |-> name, file |-> file],
                  env |-> env, outcome |-> outcome]
    /\ ret = <<>>
    /\ inflight = NoUpload
    /\ payloadWarnings = <<>>
    /\ steps = 0
    /\ limit = 0

\* the request reaches the route
CallPOST ==
    /\ op' = "POST"
    /\ ret' = POST(arg.req, arg.env, arg.outcome)
    /\ UNCHANGED <<homeVars, tz, arg, inflight, steps, limit,
                   payloadWarnings>>

\* one whole processFile on the file of the request: the form is posted,
\* the route answers, and onExtracted is called when the answer is ok, an
\* error shown when not
UploadFile ==
    /\ arg.req.file.present
    /\ LET res == POST(FileUploadForm(arg.req.file.val), arg.env, arg.outcome)
       IN  ret' = [status |-> res.status,
                   onExtracted |-> IF res.status \in 200..299 THEN 1 ELSE 0,
                   error |-> res.error,
                   uploading |-> FALSE]
    /\ op' = "uploadFile"
    /\ arg' = [arg EXCEPT !.req = FileUploadForm(arg.req.file.val)]
    /\ UNCHANGED <<homeVars, tz, inflight, steps, limit, payloadWarnings>>

NextRoute == CallPOST \/ UploadFile

SpecRoute == InitRoute /\ [][NextRoute]_vars

----------------------------------------------------------------------------
(* Properties of the export (SpecXero).                                    *)

Times60(a) == IF a.nan THEN NaN ELSE Num(60 * a.v)

\* the hours rule as the specification words it, in 1/Scale hours
RuleHours(day) ==
    LET total == ParseFloat(day.totalHours)
    IN  IF GtZero(total) THEN total
        ELSE IF day.startTime # <<>> /\ day.endTime # <<>>
             THEN LET s == TimeParts(day.startTime)
                      e == TimeParts(day.endTime)
                      startMinutes == NumAdd(Times60(s.h), s.m)
                      endMinutes == NumAdd(Times60(e.h), e.m)
                      breakMinutes == OrZero(ParseFloat(day.breakMinutes))
                  IN  NumSub(NumDiv60(NumSub(endMinutes, startMinutes)),
                             NumDiv60(breakMinutes))
             ELSE Num(0)

DataRows(rows) == 2..Len(rows)

RowsOf(rows, date, rate) ==
    { k \in DataRows(rows) : rows[k].date = date /\ rows[k].rate = rate }

\* the position of the day a data row was written for
DayIndex(ds, date) == CHOOSE i \in 1..Len(ds) : ds[i].date = date

RECURSIVE SumOver(_, _)
SumOver(S, f) ==
    IF S = {} THEN 0
    ELSE LET x == CHOOSE y \in S : TRUE IN f[x] + SumOver(S \ {x}, f)

HoursRows(rows) == { k \in DataRows(rows) : rows[k].rate = "Ordinary Hours" }

\* C1: for every day record the hours generateXeroCSV derives are the
\* totalHours when that parses to a number > 0, else (endMinutes -
\* startMinutes)/60 - breakMinutes/60 when both times are non-empty (an
\* unparseable or empty break counting 0), else 0.
C1_HoursFollowRule ==
    op = "generateXeroCSV" =>
        \A i \in 1..Len(arg) : XeroHours(arg[i]) = RuleHours(arg[i])

\* C2 as stated: the reducer and the export agree on each day's hours, and
\* the summary's total before rounding equals the sum of the Units of the
\* "Ordinary Hours" rows of the exported CSV.
C2_TotalEqualsSumOfUnits ==
    op = "generateXeroCSV" =>
        /\ \A i \in 1..Len(arg) : SummaryHours(arg[i]) = XeroHours(arg[i])
        /\ TotalHours(arg).v =
               SumOver(HoursRows(ret),
                       [k \in HoursRows(ret) |-> ParseFloat(ret[k].units).v])

\* C2 amended: the reducer and the export agree on each day's hours
\* (negative values included); when every day's hours are a number the
\* summary's total before rounding equals the sum of the derived hours of
\* the days that have an "Ordinary Hours" row, and otherwise the total is
\* not a number; each such row's Units is that day's hours rounded to two
\* decimals (so it is within 0.005 of them).
C2_TotalEqualsExportedHours ==
    op = "generateXeroCSV" =>
        /\ \A i \in 1..Len(arg) : SummaryHours(arg[i]) = XeroHours(arg[i])
        /\ IF \E i \in 1..Len(arg) : XeroHours(arg[i]).nan
           THEN TotalHours(arg).nan
           ELSE TotalHours(arg) =
                   Num(SumOver(HoursRows(ret),
                           [k \in HoursRows(ret) |->
                               XeroHours(arg[DayIndex(arg, ret[k].date)]).v]))
        /\ \A k \in HoursRows(ret) :
               2 * Abs(ParseFloat(ret[k].units).v
                       - XeroHours(arg[DayIndex(arg, ret[k].date)]).v)
                   <= Scale \div 100

\* an export of a period with a day of negative hours next to a day whose
\* hours (8 h 20 min) are not a whole number of hundredths
C2_Witness ==
    /\ op = "generateXeroCSV"
    /\ \E i \in 1..Len(arg) : XeroHours(arg[i]).v < 0
    /\ \E k \in HoursRows(ret) :
           ParseFloat(ret[k].units).v
               # XeroHours(arg[DayIndex(arg, ret[k].date)]).v

\* C3: the output of generateXeroCSV is the header row followed by exactly
\* one "Ordinary Hours" row for each day whose derived hours are > 0 and
\* exactly one "Kilometers" row for each day whose kilometers are > 0, and
\* nothing else; a day with neither contributes no row and an empty period
\* yields the header alone.
C3_RowsPerDay ==
    op = "generateXeroCSV" =>
        /\ Len(ret) >= 1
        /\ ret[1] = HeaderRow
        /\ \A k \in DataRows(ret) :
               /\ ret[k].rate \in { "Ordinary Hours", "Kilometers" }
               /\ \E i \in 1..Len(arg) : arg[i].date = ret[k].date
        /\ \A i \in 1..Len(arg) :
               /\ Cardinality(RowsOf(ret, arg[i].date, "Ordinary Hours"))
                      = IF GtZero(XeroHours(arg[i])) THEN 1 ELSE 0
               /\ Cardinality(RowsOf(ret, arg[i].date, "Kilometers"))
                      = IF GtZero(XeroKm(arg[i])) THEN 1 ELSE 0
        /\ arg = <<>> => ret = <<HeaderRow>>

\* an export of a day with every field empty followed by a day with hours
\* and kilometers: the header and that second day's two rows
C3_Witness ==
    /\ op = "generateXeroCSV"
    /\ Len(arg) = 2
    /\ \A f \in { "startTime", "endTime", "totalHours", "breakMinutes",
                  "kilometers", "notes" } : arg[1][f] = <<>>
    /\ GtZero(XeroHours(arg[2]))
    /\ GtZero(XeroKm(arg[2]))
    /\ Len(ret) = 3

\* C4: the data rows follow the order of the days of the input, and for a
\* day that produces both rows the "Ordinary Hours" row immediately
\* precedes that day's "Kilometers" row.
C4_RowOrder ==
    op = "generateXeroCSV" =>
        /\ \A p, q \in DataRows(ret) :
               p < q => DayIndex(arg, ret[p].date) <= DayIndex(arg, ret[q].date)
        /\ \A i \in 1..Len(arg) :
               (GtZero(XeroHours(arg[i])) /\ GtZero(XeroKm(arg[i]))) =>
                   \E p \in DataRows(ret) :
                       /\ p + 1 \in DataRows(ret)
                       /\ ret[p].date = arg[i].date
                       /\ ret[p].rate = "Ordinary Hours"
                       /\ ret[p + 1].date = arg[i].date
                       /\ ret[p + 1].rate = "Kilometers"

\* an export of two days that both produce both rows
C4_Witness ==
    /\ op = "generateXeroCSV"
    /\ Len(arg) = 2
    /\ \A i \in 1..2 : GtZero(XeroHours(arg[i])) /\ GtZero(XeroKm(arg[i]))
    /\ Len(ret) = 5

----------------------------------------------------------------------------
(* Properties of the Reconciler, handleExtracted (Spec).                   *)

\* the weekday code of a calendar date
WeekdayCode(date) == ALL_DAY_NAMES[WeekdayOfDay(DaysFromCivil(date)) + 1]

EntryFields == { "startTime", "endTime", "totalHours", "breakMinutes",
                 "kilometers", "notes" }

\* C5: handleExtracted applied to a payload whose days collection is
\* missing, null or empty leaves the days state and the ConfidenceMap
\* exactly as they were before the call.
C5_NoDaysKeepsPeriod ==
    [][(op' = "handleExtracted" /\ ret' = "no days") =>
          (days' = days /\ confidences' = confidences)]_vars

\* a payload without days has been applied to a period that holds a
\* manually entered value
C5_Witness ==
    /\ op = "handleExtracted"
    /\ ret = "no days"
    /\ Len(days) = 5
    /\ \E i \in 1..Len(days) : \E f \in EntryFields : days[i][f] # <<>>

\* C6: after handleExtracted, employeeName equals its prior value whenever
\* that prior value was non-empty, and email equals its prior value
\* whenever that prior value was non-empty.
C6_IdentityKept ==
    [][op' = "handleExtracted" =>
          /\ employeeName # "" => employeeName' = employeeName
          /\ email # "" => email' = email]_vars

\* C7: after a payload has been applied, every resulting day record has a
\* date whose weekday code is its dayOfWeek.
C7_WeekdayMatchesDate ==
    (op = "handleExtracted" /\ ret = "days applied") =>
        \A i \in 1..Len(days) : WeekdayCode(days[i].date) = days[i].dayOfWeek

\* a payload day carries a work signal: a total, or start and end times
WorkSignal(work) ==
    \/ ~work.totalHours.null
    \/ ~work.startTime.null /\ ~work.endTime.null

NoWorkSignal(work) ==
    work.totalHours.null /\ work.startTime.null /\ work.endTime.null

\* C8: after a payload has been applied, every resulting day with a work
\* signal whose payload breakMinutes is null has breakMinutes "30", and
\* every day without any work signal has breakMinutes absent.
C8_BreakDefault ==
    (op = "handleExtracted" /\ ret = "days applied") =>
        /\ Len(days) = Len(arg)
        /\ \A i \in 1..Len(arg) :
               /\ (WorkSignal(arg[i].work) /\ arg[i].work.breakMinutes.null)
                      => days[i].breakMinutes = S30
               /\ (NoWorkSignal(arg[i].work) /\ arg[i].work.breakMinutes.null)
                      => days[i].breakMinutes = <<>>

\* C13: right after handleExtracted has applied a payload, the warnings
\* shown are the warnings list of that payload, empty when it carried
\* none.
C13_WarningsOfLastPayload ==
    (op = "handleExtracted" /\ ret # "TypeError") =>
        warnings = payloadWarnings

\* the earliest date among the records of a non-empty period
EarliestDate(ds) ==
    CHOOSE d \in { ds[i].date : i \in 1..Len(ds) } :
        \A i \in 1..Len(ds) : DaysFromCivil(d) <= DaysFromCivil(ds[i].date)

\* C14: after handleExtracted has applied a payload with non-empty days,
\* weekStart is the earliest date among the resulting day records; after a
\* payload with missing or empty days, weekStart is the first date of the
\* unchanged period.
C14_WeekStartFromDays ==
    /\ (op = "handleExtracted" /\ ret = "days applied") =>
           weekStart = EarliestDate(days)
    /\ (op = "handleExtracted" /\ ret = "no days" /\ Len(days) > 0) =>
           weekStart = days[1].date

\* C15: in every state reached by week changes, manual edits and applied
\* payloads, days has between 1 and 7 entries with strictly increasing
\* (hence distinct) dates.
C15_PeriodWellFormed ==
    /\ Len(days) \in 1..7
    /\ \A i \in 1..(Len(days) - 1) :
           DaysFromCivil(days[i].date) < DaysFromCivil(days[i + 1].date)

\* C16: handleExtracted invoked with no payload at all (null or undefined)
\* completes without raising, as a no-op; in the model only that call can
\* end with a TypeError.
C16_NoPayloadNoOp == op = "handleExtracted" => ret # "TypeError"

\* C18: a name or an email typed while an upload is in flight, into a
\* field that was empty when processFile started, is still there after the
\* answer has been applied by the handleExtracted captured at the start.
C18_TypedInFlightKept ==
    [][(op' = "handleExtracted" /\ inflight.active) =>
          /\ (inflight.employeeName = "" /\ employeeName # "") =>
                 employeeName' = employeeName
          /\ (inflight.email = "" /\ email # "") => email' = email]_vars

\* a nullable text member and the field made of it
TextMapped(x, field) == IF x.null THEN field = <<>> ELSE field = x.val

\* a nullable number member and the field made of it
NumberMapped(x, field) ==
    IF x.null THEN field = <<>> ELSE ParseFloat(field) = Num(x.val)

\* C12: when handleExtracted applies a payload with a non-empty days list,
\* the new days has the length and order of the payload's days, record i
\* carries payload day i's date and dayOfWeek and nothing but the payload's
\* values, each null member maps to the empty string rather than to zero,
\* and the keys of the ConfidenceMap are exactly the payload days' dates.
C12_PeriodReplaced ==
    (op = "handleExtracted" /\ ret = "days applied") =>
        /\ Len(arg) > 0
        /\ Len(days) = Len(arg)
        /\ \A i \in 1..Len(arg) :
               /\ days[i].date = arg[i].date
               /\ days[i].dayOfWeek = arg[i].dayOfWeek
               /\ TextMapped(arg[i].work.startTime, days[i].startTime)
               /\ TextMapped(arg[i].work.endTime, days[i].endTime)
               /\ NumberMapped(arg[i].work.totalHours, days[i].totalHours)
               /\ NumberMapped(arg[i].work.breakMinutes, days[i].breakMinutes)
               /\ NumberMapped(arg[i].work.kilometers, days[i].kilometers)
               /\ TextMapped(arg[i].notes, days[i].notes)
        /\ DOMAIN confidences = { arg[i].date : i \in 1..Len(arg) }

\* a payload of two days, one with a total and one without, has replaced
\* the five days of the period
C12_Witness ==
    /\ op = "handleExtracted"
    /\ ret = "days applied"
    /\ Len(days) = 2
    /\ \E i \in 1..2 : arg[i].work.totalHours.null /\ days[i].totalHours = <<>>
    /\ \E i \in 1..2 : ~arg[i].work.totalHours.null /\ days[i].totalHours # <<>>
    /\ Cardinality(DOMAIN confidences) = 2

----------------------------------------------------------------------------
(* Properties of the extract route and of the upload (SpecRoute).          *)

NonBlank(field) ==
    field.present /\ \E i \in 1..Len(field.val) : field.val[i] # " "

SomeKeySet(env) ==
    env.AI_API_KEY # "" \/ env.ANTHROPIC_API_KEY # "" \/ env.OPENAI_API_KEY # ""

\* the first of the four request checks that fails, "" when none does
FirstFailedCheck(req) ==
    IF ~NonBlank(req.employeeName) THEN "name"
    ELSE IF ~req.file.present THEN "file"
    ELSE IF ~(req.file.val.size <= MaxFileSize) THEN "size"
    ELSE IF req.file.val.type \notin
               { "image/jpeg", "image/png", "image/webp", "application/pdf",
                 "text/plain", "text/csv" } THEN "type"
    ELSE ""

CheckMessage(check) ==
    CASE check = "name" -> "Employee name is required before uploading."
      [] check = "file" -> "No file provided"
      [] check = "size" -> "File too large (max 20MB)"
      [] check = "type" -> "Unsupported file type"

\* C17: the route calls the provider only for a request with a non-blank
\* employeeName, a file, a size of at most 20 MB, an allowed content type
\* and a configured API key; a request failing one of the first four
\* checks is answered 400 without a provider call, the checks applied in
\* the order name, file, size, type.
C17_RouteValidation ==
    op = "POST" =>
        /\ ret.called # "none" =>
               /\ FirstFailedCheck(arg.req) = ""
               /\ SomeKeySet(arg.env)
               /\ ret.called \in { "openai", "anthropic" }
        /\ FirstFailedCheck(arg.req) # "" =>
               /\ ret.status = 400
               /\ ret.called = "none"
               /\ ret.error = CheckMessage(FirstFailedCheck(arg.req))

\* the route has called a provider for a file of exactly 20 MB sent with a
\* name padded with blanks
C17_Witness ==
    /\ op = "POST"
    /\ ret.called = "anthropic"
    /\ ret.status = 200
    /\ arg.req.file.val.size = MaxFileSize
    /\ arg.req.employeeName.val = <<" ", "A", "n", "n", " ">>

\* C19: when the user has entered an employee name and FileUpload submits
\* a file of an allowed type and of at most 20 MB, a key is configured and
\* the provider returns JSON, the route answers 2xx and onExtracted is
\* called exactly once, after which uploading is false and no error is
\* shown.
C19_UploadReachesReconciler ==
    (/\ op = "uploadFile"
     /\ employeeName # ""
     /\ arg.req.file.val.size <= MaxFileSize
     /\ arg.req.file.val.type \in ALLOWED_TYPES
     /\ arg.env.AI_API_KEY = "k1"
     /\ arg.env.AI_PROVIDER \in { "", "openai", "anthropic" }
     /\ arg.outcome = "json") =>
        /\ ret.status \in 200..299
        /\ ret.onExtracted = 1
        /\ ~ret.uploading
        /\ ret.error = ""

----------------------------------------------------------------------------
(* Properties of the date helpers (SpecDates).                             *)

\* C9: for every start date and time zone, the day records generateWeekDays
\* returns have strictly increasing dates, the first being the start date,
\* each dayOfWeek is the weekday code of the record's own date, and every
\* optional field is empty.
C9_GeneratedWeek ==
    op \in { "generateWeekDays", "generateWeekDaysMonFri" } =>
        /\ Len(ret) >= 1
        /\ ret[1].date = arg
        /\ \A i \in 1..(Len(ret) - 1) :
               DaysFromCivil(ret[i].date) < DaysFromCivil(ret[i + 1].date)
        /\ \A i \in 1..Len(ret) :
               /\ ret[i].dayOfWeek = WeekdayCode(ret[i].date)
               /\ \A f \in EntryFields : ret[i][f] = <<>>

\* C11: for any ISO date string S and any fixed time zone offset, parsing
\* S as local midnight and formatting the result with formatDate yields S
\* again, and getCurrentWeekStart() returns the calendar date of the local
\* Monday of the current week.
C11_FormatRoundTrip ==
    /\ op = "formatDate" => ret = arg
    /\ op = "getCurrentWeekStart" =>
           ret = CivilFromDays(LocalDay(getMonday(arg, tz), tz))

\* C10: for any date D, getMonday(D) is a Monday (by getDayName), at the
\* local midnight of a day at most 6 days before D's and never after D (a
\* Sunday maps to the Monday six days earlier), and getMonday of it is
\* itself.
C10_MondayOf ==
    op = "getMonday" =>
        /\ getDayName(ret, tz) = "MON"
        /\ ret <= arg
        /\ LocalDay(arg, tz) - LocalDay(ret, tz) \in 0..6
        /\ GetDay(arg, tz) = 0 => LocalDay(arg, tz) - LocalDay(ret, tz) = 6
        /\ getMonday(ret, tz) = ret

\* getMonday has been applied to a Sunday east of Greenwich, the Monday
\* found lying in the month before
C10_Witness ==
    /\ op = "getMonday"
    /\ tz > 0
    /\ GetDay(arg, tz) = 0
    /\ LocalDay(arg, tz) - LocalDay(ret, tz) = 6
    /\ CivilFromDays(LocalDay(arg, tz))[2] # CivilFromDays(LocalDay(ret, tz))[2]

============================================================================
